---- MODULE Spec2Model ----
(***************************************************************************)
(* The sync engine of the Fleeting Notes plugin (src/src/main.ts): one     *)
(* plugin instance, its settings, the vault it writes to, the remote note  *)
(* store it talks to, and the sync cycles (syncFleetingNotes) that the     *)
(* command callback and the startup hook start.                            *)
(*                                                                         *)
(* Strings are sequences of one-character strings, so that path handling   *)
(* (pathJoin, convertObsidianPath, startsWith, contains) is computed the   *)
(* way the code computes it.  Every file of the model is a markdown file;  *)
(* the ".md" extension is left out of paths and base names alike.          *)
(*                                                                         *)
(* A sync cycle is a sequence of steps, one per awaited vault or network   *)
(* call: the code between two awaits runs without interruption, and other  *)
(* cycles, the user and the clock may act between two steps.               *)
(***************************************************************************)
EXTENDS Integers, Sequences, FiniteSets, TLC

\* ---------------------------------------------------------------- bounds
\* number of calls of syncFleetingNotes in one run
MaxSyncs == 2
\* the clock runs from 1 to MaxTime
MaxTime == 2
\* number of user edits of vault files in one run
MaxEdits == 1
\* number of file objects the vault ever holds (TFile objects are never reused)
MaxFiles == 3

\* --------------------------------------------------------------- strings
Str(c) == <<c>>
Empty == <<>>
SLASH == "/"

\* note ids of the remote store, titles and bodies of notes
Ids == {Str("a"), Str("b")}
Titles == {Empty, Str("T")}
Bodies == {Str("x"), Str("y")}
\* the values of settings.fleeting_notes_folder: the vault root and a folder N
Folders == {Str(SLASH), Str("N")}

\* JavaScript truthiness of a string
Truthy(s) == s # Empty

\* String.prototype.startsWith
StartsWith(s, pre) ==
  /\ Len(pre) <= Len(s)
  /\ SubSeq(s, 1, Len(pre)) = pre

\* String.prototype.contains (Obsidian's alias of includes), for one character
Contains(s, c) == \E i \in 1..Len(s) : s[i] = c

\* index of the last separator of a path, 0 when there is none
LastSlash(path) ==
  LET S == {i \in 1..Len(path) : path[i] = SLASH}
  IN  IF S = {} THEN 0 ELSE CHOOSE i \in S : \A j \in S : j <= i

\* TFile.basename: the file name without its folder (and without extension)
Basename(path) == SubSeq(path, LastSlash(path) + 1, Len(path))

\* replace(/\/{1,}/g, '/'): every run of separators becomes one separator
RECURSIVE Collapse(_)
Collapse(s) ==
  IF Len(s) <= 1 THEN s
  ELSE IF s[1] = SLASH /\ s[2] = SLASH THEN Collapse(Tail(s))
  ELSE <<s[1]>> \o Collapse(Tail(s))

\* pathJoin([a, b]): join with the separator, then collapse separator runs
pathJoin(a, b) == Collapse(a \o Str(SLASH) \o b)

\* convertObsidianPath: drop one leading separator; the empty path is "/"
convertObsidianPath(path) ==
  LET p == IF Len(path) > 0 /\ path[1] = SLASH THEN Tail(path) ELSE path
  IN  IF Truthy(p) THEN p ELSE Str(SLASH)

\* ------------------------------------------------------- note file text
\* The text of a file and of a template is a sequence of tokens: the fixed
\* pieces of the default template, the placeholders, and one token per
\* character of a note field.
DASH == "---\n"
COMMENT == "# Metadata used for sync\n"
KID == "id: \""
KTITLE == "title: \""
KCREATED == "created: \""
KSOURCE == "source: \""
QNL == "\"\n"
PID == "${id}"
PTITLE == "${title}"
PDATETIME == "${datetime}"
PCONTENT == "${content}"
PSOURCE == "${source}"

\* DEFAULT_SETTINGS.note_template
DefaultTemplate ==
  << DASH, COMMENT, KID, PID, QNL, KTITLE, PTITLE, QNL,
     KCREATED, PDATETIME, QNL, KSOURCE, PSOURCE, QNL, DASH, PCONTENT >>

\* the tokens that end a line
EndsLine(tok) == tok \in {DASH, COMMENT, QNL}

\* a note's timestamp: its date portion (10 characters) and the rest of it
DatePart == "2022-05-01"
TimePart == "T10:00:00.000Z"
Timestamp == <<DatePart, TimePart>>

\* number of characters of a token of a timestamp
CharLen(tok) == IF tok = DatePart THEN 10 ELSE IF tok = TimePart THEN 14 ELSE 1

\* String.prototype.substring(start) of a timestamp, start a number: the
\* start index is truncated to an integer, and the tokens from that
\* character on are kept (an index inside a token keeps the token's tail,
\* which the model writes as the token itself only when the index is 0)
RECURSIVE Substring(_, _)
Substring(s, start) ==
  IF s = <<>> THEN <<>>
  ELSE IF start <= 0 THEN s
  ELSE IF start >= CharLen(Head(s)) THEN Substring(Tail(s), start - CharLen(Head(s)))
  ELSE Tail(s)

\* the literal 0.10 of getFilledTemplate, truncated as substring truncates it
DatetimeStart == 0

\* String.prototype.replace(/\$\{x\}/gm, value): every occurrence of the
\* placeholder token becomes the value
RECURSIVE ReplaceAll(_, _, _)
ReplaceAll(text, ph, value) ==
  IF text = <<>> THEN <<>>
  ELSE IF Head(text) = ph THEN value \o ReplaceAll(Tail(text), ph, value)
  ELSE <<Head(text)>> \o ReplaceAll(Tail(text), ph, value)

\* getFilledTemplate: five replace calls, one after the other
getFilledTemplate(template, note) ==
  LET t1 == ReplaceAll(template, PID, note.id)
      t2 == ReplaceAll(t1, PTITLE, note.title)
      t3 == ReplaceAll(t2, PDATETIME, Substring(note.timestamp, DatetimeStart))
      t4 == ReplaceAll(t3, PCONTENT, note.content)
      t5 == ReplaceAll(t4, PSOURCE, note.source)
  IN  t5

\* rawNoteContent.match(/^---\n([\s\S]*?)\n---\n/m): the first line "---"
\* that is followed, at least one line later, by another line "---";
\* <<i, j>> are the places of the two lines, <<0, 0>> when there is no match
AtLineStart(text, i) == i = 1 \/ EndsLine(text[i - 1])

FrontMatterMatch(text) ==
  LET Opens == {i \in 1..Len(text) :
                  /\ text[i] = DASH /\ AtLineStart(text, i)
                  /\ \E j \in (i + 2)..Len(text) : text[j] = DASH /\ EndsLine(text[j - 1])}
  IN  IF Opens = {} THEN <<0, 0>>
      ELSE LET i == CHOOSE k \in Opens : \A l \in Opens : k <= l
               Closes == {j \in (i + 2)..Len(text) : text[j] = DASH /\ EndsLine(text[j - 1])}
           IN  <<i, CHOOSE k \in Closes : \A l \in Closes : k <= l>>

\* parseYaml, for one key of the block: the characters between the key's
\* opening quote and the quote that ends its line; empty when the key is absent
YamlValue(block, key) ==
  LET Ks == {i \in 1..Len(block) : block[i] = key}
  IN  IF Ks = {} THEN <<>>
      ELSE LET k == CHOOSE i \in Ks : \A l \in Ks : i <= l
               Es == {e \in (k + 1)..Len(block) : block[e] = QNL}
           IN  IF Es = {} THEN <<>>
               ELSE SubSeq(block, k + 1, (CHOOSE e \in Es : \A l \in Es : e <= l) - 1)

\* parseNoteFile, when the read succeeds: the front matter and the text
\* with the matched block removed
parseNoteFile(text) ==
  LET m == FrontMatterMatch(text)
  IN  IF m = <<0, 0>>
      THEN [id |-> <<>>, title |-> <<>>, source |-> <<>>, content |-> text]
      ELSE LET block == SubSeq(text, m[1] + 1, m[2] - 1)
           IN  [id |-> YamlValue(block, KID),
                title |-> YamlValue(block, KTITLE),
                source |-> YamlValue(block, KSOURCE),
                content |-> SubSeq(text, 1, m[1] - 1) \o SubSeq(text, m[2] + 1, Len(text))]

\* ------------------------------------------------------------ the state
\* The two places that call syncFleetingNotes, neither awaiting it: the
\* callback of the command and the onLayoutReady callback of onload.  The
\* model keeps one call of each in flight.
CommandCall == 1
StartupCall == 2
Procs == {CommandCall, StartupCall}

VARIABLES
  vault,          \* the TFile objects ever created: path, text, mtime, live
  folders,        \* the folders that exist beside the vault root
  remote,         \* the remote note store: id -> note, or absent
  settings,       \* this.settings: folder, sync_type, last_sync_time
  startupPending, \* the onLayoutReady callback is registered and has not run
  now,            \* the clock read by new Date() and by the vault
  syncs,          \* calls of syncFleetingNotes so far
  edits,          \* user edits so far
  proc            \* the calls of syncFleetingNotes: position and locals

vars == <<vault, folders, remote, settings, startupPending, now, syncs, edits, proc>>

\* a note of the remote store as the fetch returns it
Note(id, title, content, deleted) ==
  [id |-> id, title |-> title, content |-> content, source |-> Empty,
   timestamp |-> Timestamp, deleted |-> deleted]

\* a file object of the vault
File(path, text, mtime) == [path |-> path, text |-> text, mtime |-> mtime, live |-> TRUE]

\* app.vault.getFiles(): the live file objects, in creation order
RECURSIVE LiveFrom(_, _)
LiveFrom(v, f) ==
  IF f > Len(v) THEN <<>>
  ELSE IF v[f].live THEN <<f>> \o LiveFrom(v, f + 1)
  ELSE LiveFrom(v, f + 1)

getFiles(v) == LiveFrom(v, 1)

\* app.vault.getAbstractFileByPath(path): the live file at the path, 0 for null
getAbstractFileByPath(v, path) ==
  LET S == {f \in 1..Len(v) : v[f].live /\ v[f].path = path}
  IN  IF S = {} THEN 0 ELSE CHOOSE f \in S : TRUE

\* The vault acts on a file object through its path: a call on an object
\* whose file was deleted reaches the file now at that path, if there is one.
Resolve(v, f) == IF v[f].live THEN f ELSE getAbstractFileByPath(v, v[f].path)

\* app.vault.modify(file, text): overwrite the text; a deleted object's path
\* is written again, as a new file when nothing is there
VaultModify(v, f, text, t) ==
  LET g == Resolve(v, f)
  IN  IF g # 0 THEN [v EXCEPT ![g].text = text, ![g].mtime = t]
      ELSE Append(v, File(v[f].path, text, t))

\* app.vault.rename(file, path) succeeds when the file exists and the path is
\* its own or free
CanRename(v, f, path) ==
  LET g == Resolve(v, f)
  IN  g # 0 /\ (v[g].path = path \/ getAbstractFileByPath(v, path) = 0)

VaultRename(v, f, path) == [v EXCEPT ![Resolve(v, f)].path = path]

\* a delete that leaves the file
KeepFile(v, f) == v

\* app.vault.delete(file): the object stays, dead, with its last path
VaultDelete(v, f) ==
  [v EXCEPT ![f] = [path |-> v[f].path, text |-> <<>>, mtime |-> 0, live |-> FALSE]]

\* app.vault.create(path, text) succeeds when no file is at the path
CanCreate(v, path) == getAbstractFileByPath(v, path) = 0

VaultCreate(v, path, text, t) == Append(v, File(path, text, t))

\* ------------------------------------------------------------- messages
\* What is thrown: a string (the message) or an Error object.
StringExc(text, path) == [isString |-> TRUE, text |-> text, path |-> path]
ErrorExc(text) == [isString |-> FALSE, text |-> text, path |-> Empty]

MsgParse == "Failed to parse metadata for: "
MsgExisting == "Failed to get existing notes from obsidian"
MsgPush == "Failed to push notes from Obsidian to Fleeting Notes"
MsgWrite == "Failed to write notes to Obsidian"
MsgGet == "Failed to get notes from Fleeting Notes - Check your credentials"
MsgUpdate == "Failed to update notes in Fleeting Notes - Check your credentials"
MsgGeneric == "Fleeing Notes sync failed - please check settings"
MsgSuccess == "Fleeting Notes sync success!"
NoNotice == StringExc("", Empty)

\* throwError(e, errMessage): a string is thrown again as it is, anything
\* else is replaced by the message
throwError(e, errMessage) == IF e.isString THEN e ELSE StringExc(errMessage, Empty)

\* the catch of syncFleetingNotes: the notice shown for what was thrown
CatchNotice(e) == IF e.isString THEN e ELSE StringExc(MsgGeneric, Empty)

\* ------------------------------------------------------ the folder scan
\* fileInDir of getExistingFleetingNotes
fileInDir(dir, path) ==
  IF dir = Str(SLASH) THEN ~Contains(path, SLASH) ELSE StartsWith(path, dir)

\* the loop of getExistingFleetingNotes runs on, without suspending, over
\* the files that are not in the folder: what is left starts with the next
\* file to read
RECURSIVE SkipOut(_, _, _)
SkipOut(files, dir, v) ==
  IF files = <<>> THEN <<>>
  ELSE IF fileInDir(dir, v[Head(files)].path) THEN files
  ELSE SkipOut(Tail(files), dir, v)

\* Map.prototype.set on the note map, kept in insertion order
RECURSIVE MapSet(_, _)
MapSet(m, e) ==
  IF m = <<>> THEN <<e>>
  ELSE IF Head(m).id = e.id THEN <<e>> \o Tail(m)
  ELSE <<Head(m)>> \o MapSet(Tail(m), e)

\* Map.prototype.get: the place of the entry with the id, 0 for undefined
MapGet(m, id) ==
  LET S == {k \in 1..Len(m) : m[k].id = id}
  IN  IF S = {} THEN 0 ELSE CHOOSE k \in S : TRUE

\* a scan that takes every file for a synced note
AnyFile(fm) == TRUE

\* file_id = frontmatter.id || null; if (file_id !== null) noteMap.set(...)
HasFileId(fm) == Truthy(fm.id)

\* one turn of the loop of getExistingFleetingNotes, the read having given text
ScanFile(m, f, text) ==
  LET fm == parseNoteFile(text)
  IN  IF HasFileId(fm)
      THEN MapSet(m, [id |-> fm.id, file |-> f, title |-> fm.title,
                      source |-> fm.source, content |-> fm.content])
      ELSE m

\* ------------------------------------------------------------ the push
\* new Date(file.stat.mtime) > this.settings.last_sync_time.  The setting is
\* a Date when the default or a sync of this session set it, and the ISO
\* string of the saved data when loadSettings read it: a Date compared with
\* such a string is compared with NaN, and is never greater.
isContentModified(mtime, lst) == lst.isDate /\ mtime > lst.t

\* frontmatter.title && frontmatter.title !== file.basename
isTitleChanged(title, basename) == Truthy(title) /\ title # basename

\* the filter of getUpdatedLocalNotes over the scanned records
RECURSIVE getUpdatedLocalNotes(_, _, _)
getUpdatedLocalNotes(m, v, lst) ==
  IF m = <<>> THEN <<>>
  ELSE LET e == Head(m)
           rest == getUpdatedLocalNotes(Tail(m), v, lst)
       IN  IF \/ isContentModified(v[e.file].mtime, lst)
              \/ isTitleChanged(e.title, Basename(v[e.file].path))
           THEN <<e>> \o rest ELSE rest

\* the note sent for a modified record
FormatNote(e, v) ==
  [id |-> e.id,
   title |-> IF Truthy(e.title) THEN Basename(v[e.file].path) ELSE Empty,
   content |-> e.content,
   source |-> e.source]

formattedNotes(m, v, lst) ==
  LET mod == getUpdatedLocalNotes(m, v, lst)
  IN  [k \in 1..Len(mod) |-> FormatNote(mod[k], v)]

\* a push that does not look at the number of notes
PushAlways(formatted) == TRUE

\* if (formattedNotes.length > 0)
ShouldPush(formatted) == Len(formatted) > 0

\* the remote store after update_notes: each note sent replaces the title
\* and the content stored under its id
RECURSIVE RemoteUpdate(_, _)
RemoteUpdate(r, formatted) ==
  IF formatted = <<>> THEN r
  ELSE LET n == Head(formatted)
           r2 == IF n.id \in DOMAIN r
                 THEN [r EXCEPT ![n.id] = [present |-> TRUE, title |-> n.title,
                                           content |-> n.content,
                                           deleted |-> r[n.id].present /\ r[n.id].deleted]]
                 ELSE r
       IN  RemoteUpdate(r2, Tail(formatted))

\* ------------------------------------------------------------- the pull
\* the answers get_all_notes may give: the notes of the store, in any order
Orders(P) ==
  {s \in [1..Cardinality(P) -> P] : \A i, j \in DOMAIN s : i # j => s[i] # s[j]}

Responses(r) ==
  {[k \in DOMAIN s |-> Note(s[k], r[s[k]].title, r[s[k]].content, r[s[k]].deleted)] :
     s \in Orders({id \in DOMAIN r : r[id].present})}

\* the answer of the fetch with nothing filtered out
KeepDeleted(notes) == notes

\* notes.filter((note) => !note._isDeleted)
RECURSIVE FilterDeleted(_)
FilterDeleted(notes) ==
  IF notes = <<>> THEN <<>>
  ELSE IF ~Head(notes).deleted THEN <<Head(notes)>> \o FilterDeleted(Tail(notes))
  ELSE FilterDeleted(Tail(notes))

\* the file name and the path writeNotes gives a note
TargetPath(dir, note) ==
  LET title == IF Truthy(note.title) THEN note.title ELSE note.id
  IN  convertObsidianPath(pathJoin(dir, title))

\* a lookup that finds no note
NotFound(m, id) == 0

\* existingNotes.get(note._id) || null
LookupNote(m, id) == MapGet(m, id)

\* adapter.exists(folder)
FolderExists(dir) == dir = Str(SLASH) \/ dir \in folders

\* ------------------------------------------------------ the sync cycle
\* A call of syncFleetingNotes: where it is suspended (pc) and its locals.
\*   dir, files, noteMap   getExistingFleetingNotes: folder, files left, map
\*   formatted             pushFleetingNotes: the notes to send
\*   fetched, notes, i     the answer of the fetch, the notes to write, the loop
\*   del                   writeNotes: delFile
\*   notice                the Notice shown at the end
\* and, recorded for the properties: the vault calls of writeNotes so far
\* (oplog), last_sync_time when the call began (lst0), whether the call has
\* assigned last_sync_time (wroteLst) or called update_notes (pushCalled),
\* what made it fail (cause), and whether nobody else has changed the vault
\* since its writeNotes began (alone).
IdleProc ==
  [pc |-> "idle", twoWay |-> FALSE, dir |-> Empty, files |-> <<>>, noteMap |-> <<>>,
   formatted |-> <<>>, fetched |-> <<>>, notes |-> <<>>, i |-> 0, del |-> 0,
   notice |-> NoNotice, oplog |-> <<>>, lst0 |-> [isDate |-> TRUE, t |-> 0],
   wroteLst |-> FALSE, pushCalled |-> FALSE, cause |-> "none", alone |-> TRUE]

\* new Date()
DateNow == [isDate |-> TRUE, t |-> now]

\* a catch that lets the call go on to the fetch
Swallow(pr, e, cause) == [pr EXCEPT !.pc = "fetch", !.cause = cause]

\* the catch of syncFleetingNotes
Fail(pr, e, cause) ==
  [pr EXCEPT !.pc = "done", !.notice = CatchNotice(e), !.cause = cause]

\* the end of the scan of pushFleetingNotes: send the modified notes, or go
\* on to the fetch when there are none
AfterPushScan(pr, v, lst) ==
  LET fm == formattedNotes(pr.noteMap, v, lst)
  IN  IF ShouldPush(fm)
      THEN [pr EXCEPT !.pc = "push_send", !.formatted = fm, !.files = <<>>,
                      !.pushCalled = TRUE]
      ELSE [pr EXCEPT !.pc = "fetch", !.formatted = fm, !.files = <<>>]

\* getExistingFleetingNotes(dir) up to its first read
StartScan(pr, dir, v) ==
  [pr EXCEPT !.dir = dir, !.files = SkipOut(getFiles(v), dir, v), !.noteMap = <<>>]

\* the top of the loop of writeNotes at note i: past the last note the call
\* returns and syncFleetingNotes sets last_sync_time and shows the success
LoopTop(pr, i, v) ==
  IF i > Len(pr.notes)
  THEN [pr EXCEPT !.pc = "done", !.i = i, !.notice = StringExc(MsgSuccess, Empty),
                  !.wroteLst = TRUE]
  ELSE LET note == pr.notes[i]
           path == TargetPath(pr.dir, note)
       IN  IF LookupNote(pr.noteMap, note.id) # 0
           THEN [pr EXCEPT !.pc = "modify", !.i = i]
           ELSE IF getAbstractFileByPath(v, path) # 0
           THEN [pr EXCEPT !.pc = "delete", !.i = i, !.del = getAbstractFileByPath(v, path)]
           ELSE [pr EXCEPT !.pc = "create", !.i = i]

Succeeded(pr) == pr.pc = "done" /\ pr.notice = StringExc(MsgSuccess, Empty)

\* this.settings after a step that leaves the call as pr
SettingsAfter(pr) ==
  IF Succeeded(pr) THEN [settings EXCEPT !.last_sync_time = DateNow] ELSE settings

\* a call that runs the push whatever the sync type is
BeginPush(p) ==
  LET pr0 == [IdleProc EXCEPT !.lst0 = settings.last_sync_time,
                              !.twoWay = (settings.sync_type = "two-way")]
      scan == StartScan(pr0, convertObsidianPath(settings.fleeting_notes_folder), vault)
  IN  proc' = [proc EXCEPT ![p] =
                 IF scan.files # <<>> THEN [scan EXCEPT !.pc = "push_read"]
                 ELSE AfterPushScan(scan, vault, settings.last_sync_time)]

\* syncFleetingNotes up to its first await
Begin(p) ==
  LET pr0 == [IdleProc EXCEPT !.lst0 = settings.last_sync_time,
                              !.twoWay = (settings.sync_type = "two-way")]
      scan == StartScan(pr0, convertObsidianPath(settings.fleeting_notes_folder), vault)
  IN  proc' = [proc EXCEPT ![p] =
                 IF ~pr0.twoWay THEN [pr0 EXCEPT !.pc = "fetch"]
                 ELSE IF scan.files # <<>> THEN [scan EXCEPT !.pc = "push_read"]
                 ELSE AfterPushScan(scan, vault, settings.last_sync_time)]

\* the command "Sync Notes with Fleeting Notes"
CommandSync(p) ==
  /\ p = CommandCall
  /\ proc[p].pc = "idle"
  /\ syncs < MaxSyncs
  /\ syncs' = syncs + 1
  /\ Begin(p)
  /\ UNCHANGED <<vault, folders, remote, settings, startupPending, now, edits>>

\* the onLayoutReady callback of onload: it runs as the plugin has loaded,
\* before the user does anything
StartupSync(p) ==
  /\ p = StartupCall
  /\ proc[p].pc = "idle"
  /\ startupPending
  /\ syncs = 0 /\ edits = 0 /\ now = 1
  /\ syncs < MaxSyncs
  /\ startupPending' = FALSE
  /\ syncs' = syncs + 1
  /\ Begin(p)
  /\ UNCHANGED <<vault, folders, remote, settings, now, edits>>

\* a read of parseNoteFile resolves, during the scan of the push
PushRead(p) ==
  LET pr == proc[p]
      f == Head(pr.files)
      g == Resolve(vault, f)
      m == ScanFile(pr.noteMap, f, vault[g].text)
      rest == SkipOut(Tail(pr.files), pr.dir, vault)
  IN  /\ pr.pc = "push_read"
      /\ g # 0
      /\ proc' = [proc EXCEPT ![p] =
                    IF rest # <<>> THEN [pr EXCEPT !.noteMap = m, !.files = rest]
                    ELSE AfterPushScan([pr EXCEPT !.noteMap = m], vault,
                                       settings.last_sync_time)]
      /\ UNCHANGED <<vault, folders, remote, settings, startupPending, now, syncs, edits>>

\* a read of parseNoteFile resolves, during the scan of writeNotes
PullRead(p) ==
  LET pr == proc[p]
      f == Head(pr.files)
      g == Resolve(vault, f)
      m == ScanFile(pr.noteMap, f, vault[g].text)
      rest == SkipOut(Tail(pr.files), pr.dir, vault)
  IN  /\ pr.pc = "pull_read"
      /\ g # 0
      /\ proc' = [proc EXCEPT ![p] =
                    IF rest # <<>> THEN [pr EXCEPT !.noteMap = m, !.files = rest]
                    ELSE [pr EXCEPT !.noteMap = m, !.files = <<>>, !.pc = "exists"]]
      /\ UNCHANGED <<vault, folders, remote, settings, startupPending, now, syncs, edits>>

\* the read or the parse of a file fails: parseNoteFile names the file, and
\* the callers throw its message again
ReadFail(p) ==
  LET pr == proc[p]
      f == Head(pr.files)
      e1 == throwError(ErrorExc("read"), MsgParse)
      e2 == throwError([e1 EXCEPT !.path = vault[f].path], MsgExisting)
      e3 == IF pr.pc = "push_read" THEN throwError(e2, MsgPush) ELSE throwError(e2, MsgWrite)
  IN  /\ pr.pc \in {"push_read", "pull_read"}
      /\ proc' = [proc EXCEPT ![p] = Fail(pr, e3, "read")]
      /\ UNCHANGED <<vault, folders, remote, settings, startupPending, now, syncs, edits>>

\* what updateNotesFirebase throws for an answer of the request
UpdateThrows(answer) ==
  IF answer = "Unauthorized"
  THEN throwError(throwError(ErrorExc("Unauthorized"), MsgUpdate), MsgUpdate)
  ELSE throwError(ErrorExc("request"), MsgUpdate)

\* what getAllNotesFirebase throws for an answer of the request
GetThrows(answer) ==
  IF answer = "Unauthorized"
  THEN throwError(throwError(ErrorExc("Unauthorized"), MsgGet), MsgGet)
  ELSE throwError(ErrorExc("request"), MsgGet)

\* the request of updateNotesFirebase resolves
PushSend(p) ==
  LET pr == proc[p]
  IN  /\ pr.pc = "push_send"
      /\ \E answer \in {"ok", "Unauthorized", "error"} :
           IF answer = "ok"
           THEN /\ remote' = RemoteUpdate(remote, pr.formatted)
                /\ settings' = [settings EXCEPT !.last_sync_time = DateNow]
                /\ proc' = [proc EXCEPT ![p] = [pr EXCEPT !.pc = "fetch", !.wroteLst = TRUE]]
           ELSE /\ proc' = [proc EXCEPT ![p] =
                              Fail(pr, throwError(UpdateThrows(answer), MsgPush), answer)]
                /\ UNCHANGED <<remote, settings>>
      /\ UNCHANGED <<vault, folders, startupPending, now, syncs, edits>>

\* the request of getAllNotesFirebase resolves; then writeNotes runs up to
\* its first await
Fetch(p) ==
  LET pr == proc[p]
  IN  /\ pr.pc = "fetch"
      /\ \/ \E resp \in Responses(remote) :
              LET scan == StartScan([pr EXCEPT !.fetched = resp, !.notes = FilterDeleted(resp)],
                                    convertObsidianPath(settings.fleeting_notes_folder), vault)
              IN  proc' = [proc EXCEPT ![p] =
                             IF scan.files # <<>> THEN [scan EXCEPT !.pc = "pull_read"]
                             ELSE [scan EXCEPT !.pc = "exists"]]
         \/ \E answer \in {"Unauthorized", "error"} :
              proc' = [proc EXCEPT ![p] = Fail(pr, GetThrows(answer), answer)]
      /\ UNCHANGED <<vault, folders, remote, settings, startupPending, now, syncs, edits>>

\* the calls that are in writeNotes, or past it, see the vault changed by
\* somebody else
InWriteNotes(pr) ==
  pr.pc \in {"pull_read", "exists", "mkdir", "modify", "rename", "delete", "create", "done"}

Disturbed(pr) == IF InWriteNotes(pr) THEN [pr EXCEPT !.alone = FALSE] ELSE pr

\* a step of writeNotes that leaves the call as pr2 and the vault as v
WriteStep(p, pr2, v) ==
  /\ vault' = v
  /\ proc' = [q \in Procs |-> IF q = p THEN pr2
                              ELSE IF v # vault THEN Disturbed(proc[q]) ELSE proc[q]]
  /\ settings' = SettingsAfter(pr2)
  /\ UNCHANGED <<remote, startupPending, now, syncs, edits>>

Logged(pr, op, f, path) ==
  [pr EXCEPT !.oplog = Append(@, [op |-> op, file |-> f, path |-> path,
                                  note |-> pr.notes[pr.i].id])]

\* adapter.exists(folder) resolves
Exists(p) ==
  LET pr == proc[p]
  IN  /\ pr.pc = "exists"
      /\ IF FolderExists(pr.dir)
         THEN WriteStep(p, LoopTop(pr, 1, vault), vault)
         ELSE WriteStep(p, [pr EXCEPT !.pc = "mkdir"], vault)
      /\ UNCHANGED folders

\* vault.createFolder(folder) resolves
Mkdir(p) ==
  LET pr == proc[p]
  IN  /\ pr.pc = "mkdir"
      /\ ~FolderExists(pr.dir)
      /\ folders' = folders \cup {pr.dir}
      /\ WriteStep(p, LoopTop(pr, 1, vault), vault)

\* vault.modify(noteFile.file, mdContent) resolves
Modify(p) ==
  LET pr == proc[p]
      note == pr.notes[pr.i]
      f == pr.noteMap[LookupNote(pr.noteMap, note.id)].file
      text == getFilledTemplate(settings.note_template, note)
  IN  /\ pr.pc = "modify"
      /\ Resolve(vault, f) # 0 \/ Len(vault) < MaxFiles
      /\ WriteStep(p, [Logged(pr, "modify", f, vault[f].path) EXCEPT !.pc = "rename"],
                   VaultModify(vault, f, text, now))
      /\ UNCHANGED folders

\* vault.rename(noteFile.file, path) resolves
Rename(p) ==
  LET pr == proc[p]
      note == pr.notes[pr.i]
      f == pr.noteMap[LookupNote(pr.noteMap, note.id)].file
      path == TargetPath(pr.dir, note)
      v == VaultRename(vault, f, path)
  IN  /\ pr.pc = "rename"
      /\ CanRename(vault, f, path)
      /\ WriteStep(p, LoopTop(Logged(pr, "rename", f, path), pr.i + 1, v), v)
      /\ UNCHANGED folders

\* vault.delete(delFile) resolves
Delete(p) ==
  LET pr == proc[p]
      g == Resolve(vault, pr.del)
  IN  /\ pr.pc = "delete"
      /\ g # 0
      /\ WriteStep(p, [Logged(pr, "delete", g, vault[g].path) EXCEPT !.pc = "create"],
                   VaultDelete(vault, g))
      /\ UNCHANGED folders

\* vault.create(path, mdContent) resolves
Create(p) ==
  LET pr == proc[p]
      note == pr.notes[pr.i]
      path == TargetPath(pr.dir, note)
      text == getFilledTemplate(settings.note_template, note)
      v == VaultCreate(vault, path, text, now)
  IN  /\ pr.pc = "create"
      /\ CanCreate(vault, path)
      /\ Len(vault) < MaxFiles
      /\ WriteStep(p, LoopTop(Logged(pr, "create", Len(v), path), pr.i + 1, v), v)
      /\ UNCHANGED folders

\* a rejected vault call that writeNotes passes over, going on to the next note
WriteSkip(p) ==
  LET pr == proc[p]
  IN  /\ pr.pc \in {"exists", "mkdir", "modify", "rename", "delete", "create"}
      /\ WriteStep(p, LoopTop(pr, pr.i + 1, vault), vault)
      /\ UNCHANGED folders

\* a vault call of writeNotes is rejected
WriteFail(p) ==
  LET pr == proc[p]
  IN  /\ pr.pc \in {"exists", "mkdir", "modify", "rename", "delete", "create"}
      /\ proc' = [proc EXCEPT ![p] = Fail(pr, throwError(ErrorExc("vault"), MsgWrite), "vault")]
      /\ UNCHANGED <<vault, folders, remote, settings, startupPending, now, syncs, edits>>

\* syncFleetingNotes returns
Finish(p) ==
  /\ proc[p].pc = "done"
  /\ proc' = [proc EXCEPT ![p] = IdleProc]
  /\ UNCHANGED <<vault, folders, remote, settings, startupPending, now, syncs, edits>>

\* -------------------------------------------------------- the environment
\* the user edits the body of a file in the editor
UserEdit(f) ==
  LET m == FrontMatterMatch(vault[f].text)
  IN  /\ edits < MaxEdits
      /\ vault[f].live
      /\ edits' = edits + 1
      /\ vault' = [vault EXCEPT ![f].text = SubSeq(vault[f].text, 1, m[2]) \o Str("y"),
                                ![f].mtime = now]
      /\ proc' = [q \in Procs |-> Disturbed(proc[q])]
      /\ UNCHANGED <<folders, remote, settings, startupPending, now, syncs>>

\* time passes
Tick ==
  /\ now < MaxTime
  /\ now' = now + 1
  /\ UNCHANGED <<vault, folders, remote, settings, startupPending, edits, syncs, proc>>

\* ------------------------------------------------------- initial states
\* DEFAULT_SETTINGS
DefaultSettings ==
  [fleeting_notes_folder |-> Str(SLASH), note_template |-> DefaultTemplate,
   sync_type |-> "one-way", sync_on_startup |-> FALSE,
   last_sync_time |-> [isDate |-> TRUE, t |-> 0]]

\* loadSettings: the defaults, overwritten by the saved data when there is
\* some.  The saved last_sync_time comes back as the string it was saved as
\* (here the one of the default, saved with the first change of a setting).
LoadedSettings ==
  { DefaultSettings,
    [DefaultSettings EXCEPT !.fleeting_notes_folder = Str("N"),
                            !.last_sync_time = [isDate |-> FALSE, t |-> 0]],
    [DefaultSettings EXCEPT !.fleeting_notes_folder = Str("N"), !.sync_type = "two-way",
                            !.last_sync_time = [isDate |-> FALSE, t |-> 0]] }

\* the saved data that make onload register the onLayoutReady callback
StartupSettings ==
  { [DefaultSettings EXCEPT !.fleeting_notes_folder = Str("N"), !.sync_type = "two-way",
                            !.sync_on_startup = TRUE,
                            !.last_sync_time = [isDate |-> FALSE, t |-> 0]] }

\* the settings once the user has chosen the two-way sync in the settings
\* tab of this session (the onChange of the dropdown)
ChosenSettings == {[DefaultSettings EXCEPT !.sync_type = "two-way"]}

\* the files a vault starts with, in the folder dir: notes written by an
\* earlier sync (named by title or by id, one renamed by the user since) and
\* a file that is no synced note
SyncedFile(dir, name, id, title) ==
  File(convertObsidianPath(pathJoin(dir, name)),
       getFilledTemplate(DefaultTemplate, Note(id, title, Str("x"), FALSE)), 1)

PlainFile(dir, name) == File(convertObsidianPath(pathJoin(dir, name)), Str("x"), 1)

Stored(title, deleted) ==
  [present |-> TRUE, title |-> title, content |-> Str("x"), deleted |-> deleted]

\* a stored note whose content is the text of a placeholder
StoredBody(title, content) ==
  [present |-> TRUE, title |-> title, content |-> content, deleted |-> FALSE]

Absent == [present |-> FALSE, title |-> Empty, content |-> Str("x"), deleted |-> FALSE]

\* The vault and the remote store a run starts with: what an earlier sync
\* left, and what has happened to either side since.
Scenarios(dir) ==
  LET A == Str("a")
      B == Str("b")
      T == Str("T")
      R(ra, rb) == [id \in Ids |-> IF id = A THEN ra ELSE rb]
      S(v, r) == [vault |-> v, remote |-> r]
  IN  { \* a first sync: one note, a note without title, two notes with one
        \* title, a deleted note
        S(<<>>, R(Stored(T, FALSE), Absent)),
        S(<<>>, R(Stored(Empty, FALSE), Stored(T, FALSE))),
        S(<<>>, R(Stored(T, FALSE), Stored(T, FALSE))),
        S(<<>>, R(Stored(T, TRUE), Stored(T, FALSE))),
        \* a synced note, unchanged, given a title, given the title of a new note
        S(<<SyncedFile(dir, A, A, Empty)>>, R(Stored(Empty, FALSE), Absent)),
        S(<<SyncedFile(dir, A, A, Empty)>>, R(Stored(T, FALSE), Absent)),
        S(<<SyncedFile(dir, A, A, Empty)>>, R(Stored(T, FALSE), Stored(T, FALSE))),
        \* a synced note with a title, unchanged, deleted in the store
        S(<<SyncedFile(dir, T, A, T)>>, R(Stored(T, FALSE), Absent)),
        S(<<SyncedFile(dir, T, A, T)>>, R(Stored(T, TRUE), Absent)),
        \* a synced note the user has renamed to U
        S(<<SyncedFile(dir, Str("U"), A, T)>>, R(Stored(T, FALSE), Absent)),
        \* a file that is no synced note, at the path of a new note, and at
        \* the path a synced note moves to
        S(<<PlainFile(dir, T)>>, R(Stored(T, FALSE), Absent)),
        S(<<PlainFile(dir, T)>>, R(Stored(Empty, FALSE), Absent)),
        S(<<SyncedFile(dir, A, A, Empty), PlainFile(dir, T)>>, R(Stored(T, FALSE), Absent)),
        \* two synced notes, the second given the title of the first
        S(<<SyncedFile(dir, T, A, T), SyncedFile(dir, B, B, Empty)>>,
          R(Stored(T, FALSE), Stored(T, FALSE))),
        \* a first sync of a note whose content reads "${source}"
        S(<<>>, R(StoredBody(Empty, <<PSOURCE>>), Absent)),
        \* a synced note in another folder, whose name starts as dir does
        S(<<SyncedFile(dir \o Str("B"), A, A, Empty)>>, R(Stored(Empty, FALSE), Absent)),
        \* a synced note the user has renamed to U, deleted in the store
        S(<<SyncedFile(dir, Str("U"), A, T)>>, R(Stored(T, TRUE), Absent)) }

\* the state when onload has run, the settings being one of S
InitWith(S) ==
  /\ settings \in S
  /\ startupPending = settings.sync_on_startup
  /\ \E sc \in Scenarios(convertObsidianPath(settings.fleeting_notes_folder)) :
       vault = sc.vault /\ remote = sc.remote
  /\ folders = IF vault # <<>> /\ settings.fleeting_notes_folder # Str(SLASH)
               THEN {settings.fleeting_notes_folder} ELSE {}
  /\ now = 1
  /\ syncs = 0
  /\ edits = 0
  /\ proc = [p \in Procs |-> IdleProc]

Init == InitWith(LoadedSettings \cup ChosenSettings)

InitStartup == InitWith(StartupSettings)

\* the steps of the calls of syncFleetingNotes, of the user and of the clock
Next ==
  \/ \E p \in Procs : CommandSync(p)
  \/ \E p \in Procs : PushRead(p)
  \/ \E p \in Procs : PullRead(p)
  \/ \E p \in Procs : ReadFail(p)
  \/ \E p \in Procs : PushSend(p)
  \/ \E p \in Procs : Fetch(p)
  \/ \E p \in Procs : Exists(p)
  \/ \E p \in Procs : Mkdir(p)
  \/ \E p \in Procs : Modify(p)
  \/ \E p \in Procs : Rename(p)
  \/ \E p \in Procs : Delete(p)
  \/ \E p \in Procs : Create(p)
  \/ \E p \in Procs : WriteFail(p)
  \/ \E p \in Procs : Finish(p)
  \/ \E f \in 1..Len(vault) : UserEdit(f)
  \/ Tick

\* the same, with the startup sync
NextStartup ==
  \/ Next
  \/ \E p \in Procs : StartupSync(p)

\* the plugin with the sync started by the command alone
Spec == Init /\ [][Next]_vars

\* the plugin with sync_on_startup set: the startup sync and the command
SpecStartup == InitStartup /\ [][NextStartup]_vars

\* =============================================================== claims
Failed(pr) == pr.pc = "done" /\ ~Succeeded(pr)

\* there is a call of syncFleetingNotes that has begun and not yet ended
InFlight(p) == proc[p].pc \notin {"idle", "done"}

\* C1. A sync cycle changes last_sync_time only if every stage of it
\* succeeded: a cycle that ends in a failure has not assigned last_sync_time,
\* and, no other cycle having run meanwhile, leaves the value it found.
\* (Refuted: the push assigns it, and the fetch or the apply may fail after.)
C1_TimestampOnlyOnSuccess ==
  \A p \in Procs :
    Failed(proc[p]) =>
      /\ ~proc[p].wroteLst
      /\ (\A q \in Procs \ {p} : proc[q].pc = "idle") =>
            settings.last_sync_time = proc[p].lst0

\* C2. At most one sync cycle is in flight at any time.
\* (Refuted: the command callback starts a cycle while the cycle of the
\* startup hook is suspended at an await.)
C2_OneSyncInFlight == Cardinality({p \in Procs : InFlight(p)}) <= 1

\* C10. A failure of the fetch or of the push that is not the answer
\* "Unauthorized" (the request rejected, an answer that does not parse) never
\* shows the notice that the answer "Unauthorized" shows.
\* (Refuted: both show the same message.)
C10_UnauthorizedDistinct ==
  \A p \in Procs :
    (Failed(proc[p]) /\ proc[p].cause = "error") =>
      /\ proc[p].notice # CatchNotice(GetThrows("Unauthorized"))
      /\ proc[p].notice # CatchNotice(throwError(UpdateThrows("Unauthorized"), MsgPush))

\* C7. Tombstone exclusion: the notes handed to writeNotes hold no note the
\* fetch returned with _isDeleted true, and no vault call of writeNotes is
\* made on behalf of such a note.
C7_TombstoneExclusion ==
  \A p \in Procs :
    LET Tomb == {proc[p].fetched[k].id : k \in {j \in 1..Len(proc[p].fetched) :
                                                  proc[p].fetched[j].deleted}}
    IN  /\ \A k \in 1..Len(proc[p].notes) : proc[p].notes[k].id \notin Tomb
        /\ \A k \in 1..Len(proc[p].oplog) : proc[p].oplog[k].note \notin Tomb

\* a first sync into an empty folder has succeeded, the fetch having returned
\* a deleted note and a note that is not deleted: no file carries the id of
\* the deleted note
C7_Witness ==
  \E p \in Procs :
    /\ Succeeded(proc[p])
    /\ proc[p].noteMap = <<>>
    /\ proc[p].oplog # <<>>
    /\ \E k \in 1..Len(proc[p].fetched) :
         /\ proc[p].fetched[k].deleted
         /\ \A f \in 1..Len(vault) :
              vault[f].live => parseNoteFile(vault[f].text).id # proc[p].fetched[k].id

\* C8. Push selection: when the scan of the push ends, the records selected
\* are those whose file was modified strictly after last_sync_time, or whose
\* metadata title is set and differs from the base name of the file.
\* (Refuted: with last_sync_time as loadSettings reads it from the saved
\* data, no record is selected for its modification time.)
SelectedIds(pr) == {pr.formatted[k].id : k \in 1..Len(pr.formatted)}

QualifiedIds(pr, v, lst) ==
  {pr.noteMap[k].id : k \in {j \in 1..Len(pr.noteMap) :
      LET e == pr.noteMap[j]
      IN  \/ v[e.file].mtime > lst.t
          \/ (e.title # <<>> /\ e.title # Basename(v[e.file].path))}}

C8_PushSelection ==
  [][\A p \in Procs :
       (/\ proc[p].pc \in {"idle", "push_read"}
        /\ proc'[p].pc \in {"push_send", "fetch"}
        /\ proc'[p].twoWay)
       => SelectedIds(proc'[p]) = QualifiedIds(proc'[p], vault', settings'.last_sync_time)]_vars

\* C9. Empty push short-circuit: a two-way cycle whose scan selected no
\* record has made no call of updateNotesFirebase and is not waiting for
\* one: from the scan it goes on to the fetch.
C9_EmptyPushShortCircuit ==
  \A p \in Procs :
    (proc[p].twoWay /\ proc[p].formatted = <<>>) =>
      /\ ~proc[p].pushCalled
      /\ proc[p].pc # "push_send"

\* a two-way cycle has scanned synced notes, selected none, and waits for the
\* answer of the fetch without having called updateNotesFirebase
C9_Witness ==
  \E p \in Procs :
    /\ proc[p].twoWay
    /\ proc[p].pc = "fetch"
    /\ proc[p].noteMap # <<>>
    /\ proc[p].formatted = <<>>
    /\ ~proc[p].pushCalled

\* ------------------------------------------------- the apply, file by file
\* the call is in the loop of writeNotes, suspended at a vault call
InLoop(pr) == pr.pc \in {"modify", "rename", "delete", "create"}

\* the text writeNotes renders for a note
Rendered(note) == getFilledTemplate(settings.note_template, note)

\* the live files at a path
FilesAt(v, path) == {f \in 1..Len(v) : v[f].live /\ v[f].path = path}

\* the folder is up to date with the notes of the call: each note is in the
\* index of the call, and its file is at the path of the note with the text
\* rendered for it
UpToDate(pr, v) ==
  /\ pr.notes # <<>>
  /\ \A k \in 1..Len(pr.notes) :
       LET j == MapGet(pr.noteMap, pr.notes[k].id)
       IN  /\ j # 0
           /\ v[pr.noteMap[j].file].live
           /\ v[pr.noteMap[j].file].path = TargetPath(pr.dir, pr.notes[k])
           /\ v[pr.noteMap[j].file].text = Rendered(pr.notes[k])

\* the same files with the same paths and texts
SameFiles(v, w) ==
  /\ Len(v) = Len(w)
  /\ \A f \in 1..Len(v) :
       v[f].live = w[f].live /\ v[f].path = w[f].path /\ v[f].text = w[f].text

\* the vault calls logged are modify calls, and rename calls to the path the
\* file had at the modify before
OnlyRewrites(log) ==
  \A k \in 1..Len(log) :
    \/ log[k].op = "modify"
    \/ /\ log[k].op = "rename"
       /\ k > 1 /\ log[k - 1].op = "modify"
       /\ log[k - 1].file = log[k].file /\ log[k - 1].path = log[k].path

\* the step is one of the call p: a vault call of it resolves or is rejected
OwnStep(p) ==
  proc'[p].pc # proc[p].pc \/ Len(proc'[p].oplog) # Len(proc[p].oplog)

\* the vault calls the call p logs in the step
NewOps(p) == SubSeq(proc'[p].oplog, Len(proc[p].oplog) + 1, Len(proc'[p].oplog))

\* C3 as stated. Pull is idempotent in its file operations: an application of
\* writeNotes that has made no vault call yet, in a folder that is up to
\* date with its notes, goes on without a vault call.
\* (Refuted: modify and rename are called for every note found in the index.)
C3_NoWriteOperation ==
  [][\A p \in Procs :
       (/\ InLoop(proc[p]) /\ proc[p].alone
        /\ proc[p].oplog = <<>>
        /\ UpToDate(proc[p], vault)
        /\ OwnStep(p))
       => proc'[p].oplog = <<>>]_vars

\* C3 as amended. In a folder that is up to date with its notes, a step of
\* writeNotes creates and deletes nothing and leaves every file with its path
\* and its text, and the folder up to date: the vault calls it makes are a
\* modify with the text the file has and a rename to the path the file has.
C3_NoChangeOfFiles ==
  [][\A p \in Procs :
       (InLoop(proc[p]) /\ OwnStep(p) /\ UpToDate(proc[p], vault))
       => /\ SameFiles(vault, vault')
          /\ UpToDate(proc'[p], vault')
          /\ \A k \in 1..Len(NewOps(p)) :
               /\ NewOps(p)[k].op \in {"modify", "rename"}
               /\ vault[NewOps(p)[k].file].live
               /\ vault[NewOps(p)[k].file].path = NewOps(p)[k].path]_vars

\* an application in an up-to-date folder has succeeded, having called
\* modify and rename, and the folder is as it was
C3_Witness ==
  \E p \in Procs :
    /\ Succeeded(proc[p]) /\ proc[p].alone
    /\ proc[p].oplog # <<>>
    /\ OnlyRewrites(proc[p].oplog)
    /\ UpToDate(proc[p], vault)

\* the note of the call with the id
NoteOf(pr, id) == pr.notes[CHOOSE k \in 1..Len(pr.notes) : pr.notes[k].id = id]

\* C4. Identity preservation on rename: when writeNotes has returned, a file
\* of the index whose note came with another title is the same file object,
\* live, at the path of the note with the rendered text, the only file
\* there, with no file at the path it had; it was modified, then renamed.
\* (Refuted: a later note of the same title, not in the index, deletes it.)
C4_IdentityPreserved ==
  \A p \in Procs :
    (Succeeded(proc[p]) /\ proc[p].alone) =>
      \A k \in 1..Len(proc[p].oplog) :
        LET e == proc[p].oplog[k]
            note == NoteOf(proc[p], e.note)
            path == TargetPath(proc[p].dir, note)
        IN  (e.op = "modify" /\ e.path # path) =>
              /\ k < Len(proc[p].oplog)
              /\ proc[p].oplog[k + 1].op = "rename"
              /\ proc[p].oplog[k + 1].file = e.file
              /\ vault[e.file].live
              /\ vault[e.file].path = path
              /\ vault[e.file].text = Rendered(note)
              /\ FilesAt(vault, path) = {e.file}
              /\ FilesAt(vault, e.path) = {}

\* the step of the call p is the create that follows the delete of the file
\* found at the path of a note that is not in the index
CollisionCreate(p) ==
  /\ proc[p].pc = "create"
  /\ Len(proc'[p].oplog) = Len(proc[p].oplog) + 1
  /\ proc[p].oplog # <<>>
  /\ proc[p].oplog[Len(proc[p].oplog)].op = "delete"
  /\ proc[p].oplog[Len(proc[p].oplog)].note = proc[p].notes[proc[p].i].id

\* C5. Orphan collision: writeNotes comes to the delete for a note exactly
\* when the note is not in the index and a file is at its path, and that
\* file is what it deletes; the delete leaves the file dead, and the create
\* that follows leaves one file at the path, the new one, with the text
\* rendered for the note.  Nobody else having changed the vault meanwhile,
\* the path is free between the delete and the create.
C5_OrphanCollision ==
  [][\A p \in Procs :
       LET pr == proc[p]
           note == pr.notes[pr.i]
           path == TargetPath(pr.dir, note)
           qr == proc'[p]
           next == qr.notes[qr.i]
           npath == TargetPath(qr.dir, next)
       IN  /\ (OwnStep(p) /\ qr.pc = "delete") =>
                /\ MapGet(qr.noteMap, next.id) = 0
                /\ FilesAt(vault', npath) = {qr.del}
           /\ (OwnStep(p) /\ qr.pc = "create" /\ pr.pc # "delete") =>
                /\ MapGet(qr.noteMap, next.id) = 0
                /\ FilesAt(vault', npath) = {}
           /\ (pr.pc = "delete" /\ qr.pc = "create") =>
                /\ ~vault'[Resolve(vault, pr.del)].live
                /\ Len(vault') = Len(vault)
                /\ qr.i = pr.i
                /\ pr.alone => (FilesAt(vault, path) = {pr.del} /\ FilesAt(vault', path) = {})
           /\ CollisionCreate(p) =>
                /\ FilesAt(vault', path) = {Len(vault')}
                /\ Len(vault') = Len(vault) + 1
                /\ vault'[Len(vault')].text = Rendered(note)
                /\ parseNoteFile(vault'[Len(vault')].text).id = note.id
                /\ parseNoteFile(vault'[Len(vault')].text).content = note.content]_vars

\* writeNotes has deleted the file at the path of a note and created the
\* file of the note there, and returned
C5_Witness ==
  \E p \in Procs :
    /\ Succeeded(proc[p]) /\ proc[p].alone
    /\ \E k \in 1..Len(proc[p].oplog) - 1 :
         /\ proc[p].oplog[k].op = "delete"
         /\ proc[p].oplog[k + 1].op = "create"
         /\ proc[p].oplog[k + 1].note = proc[p].oplog[k].note
         /\ FilesAt(vault, proc[p].oplog[k + 1].path) = {proc[p].oplog[k + 1].file}
         /\ ~vault[proc[p].oplog[k].file].live

\* the file is live and its text has no id in a metadata block
Untracked(v, f) == v[f].live /\ parseNoteFile(v[f].text).id = <<>>

\* no file without id is in the index or among the notes to send (so it is
\* after every step: the index and the notes to send are empty at the start)
NoneIndexed(pr, v) ==
  /\ \A k \in 1..Len(pr.noteMap) : ~Untracked(v, pr.noteMap[k].file)
  /\ \A k \in 1..Len(pr.formatted) : pr.formatted[k].id # <<>>

\* C6 as stated. A file without id is never in the index of a call nor among
\* the notes it sends, and no step but an edit of the user changes it.
\* (Refuted: writeNotes deletes it when it is at the path of a new note.)
C6_IdlessUntouched ==
  [][/\ \A p \in Procs : NoneIndexed(proc'[p], vault')
     /\ \A f \in 1..Len(vault) :
          (edits' = edits /\ vault'[f] # vault[f]) => ~Untracked(vault, f)]_vars

\* C6 as amended. A file without id is never in the index of a call nor
\* among the notes it sends, and writeNotes never modifies or renames it:
\* the one step that changes it is the delete of the file found at the path
\* of a pulled note that is not in the index.
C6_IdlessOnlyReplaced ==
  [][/\ \A p \in Procs : NoneIndexed(proc'[p], vault')
     /\ \A f \in 1..Len(vault) :
          (edits' = edits /\ vault'[f] # vault[f] /\ Untracked(vault, f)) =>
            \E p \in Procs :
              /\ proc[p].pc = "delete" /\ proc'[p].pc = "create"
              /\ ~vault'[f].live
              /\ vault[f].path = TargetPath(proc[p].dir, proc[p].notes[proc[p].i])
              /\ MapGet(proc[p].noteMap, proc[p].notes[proc[p].i].id) = 0]_vars

\* a sync has scanned the folder, written a note and succeeded, and the file
\* without id is as it was
C6_Witness ==
  \E p \in Procs :
    /\ Succeeded(proc[p]) /\ proc[p].alone
    /\ proc[p].oplog # <<>>
    /\ \E f \in 1..Len(vault) :
         /\ Untracked(vault, f)
         /\ fileInDir(proc[p].dir, vault[f].path)
         /\ vault[f].mtime = 1

\* ------------------------------------------------- the stages of a cycle
\* the call waits for a read of the scan of the push, or for update_notes
InPush(pr) == pr.pc \in {"push_read", "push_send"}

\* C11. Abort on push failure: a two-way call comes to the fetch only from
\* its push, the scan over and, when there were notes to send, update_notes
\* answered; a push that fails ends the call there, with a failure notice,
\* no fetch made and no vault call: nothing but the return follows.
C11_AbortOnPushFailure ==
  [][\A p \in Procs :
       LET pr == proc[p]
           qr == proc'[p]
       IN  /\ (OwnStep(p) /\ qr.pc = "fetch" /\ qr.twoWay) =>
                /\ pr.pc \in {"idle", "push_read", "push_send"}
                /\ qr.files = <<>>
                /\ qr.pushCalled = (qr.formatted # <<>>)
                /\ pr.pc = "push_send" => qr.wroteLst
           /\ (OwnStep(p) /\ InPush(pr) /\ ~InPush(qr) /\ qr.pc # "fetch") =>
                /\ Failed(qr)
                /\ qr.notice.text # ""
                /\ qr.fetched = <<>> /\ qr.notes = <<>> /\ qr.oplog = <<>>
                /\ vault' = vault
           /\ (OwnStep(p) /\ Failed(pr)) => (qr = IdleProc /\ vault' = vault)]_vars

\* update_notes has rejected the notes of a two-way call: the call has ended
\* with a failure notice, without a fetch and without a vault call
C11_Witness ==
  \E p \in Procs :
    /\ Failed(proc[p])
    /\ proc[p].twoWay /\ proc[p].pushCalled /\ ~proc[p].wroteLst
    /\ proc[p].fetched = <<>> /\ proc[p].oplog = <<>>

\* ------------------------------------------------------- the rendering
\* the first n characters of a timestamp
RECURSIVE Take(_, _)
Take(s, n) ==
  IF s = <<>> \/ n < CharLen(Head(s)) THEN <<>>
  ELSE <<Head(s)>> \o Take(Tail(s), n - CharLen(Head(s)))

\* the value of the key "created" in the metadata block of a text
CreatedOf(text) ==
  LET m == FrontMatterMatch(text)
  IN  IF m = <<0, 0>> THEN <<>>
      ELSE YamlValue(SubSeq(text, m[1] + 1, m[2] - 1), KCREATED)

\* the call p has written the file f for the note of id, by a create or a
\* modify, and nobody has changed the vault since
Wrote(p, f, id) ==
  /\ proc[p].alone
  /\ f \in 1..Len(vault) /\ vault[f].live
  /\ \E k \in 1..Len(proc[p].oplog) :
       /\ proc[p].oplog[k].op \in {"create", "modify"}
       /\ proc[p].oplog[k].file = f
       /\ proc[p].oplog[k].note = id

\* C12. The datetime placeholder becomes the first 10 characters of the
\* timestamp of the note: a file written from the default template has, as
\* its "created" value, the date portion and nothing more.
\* (Refuted: substring(0.10) is substring(0), the whole timestamp.)
C12_DatePrefix ==
  \A p \in Procs : \A f \in 1..Len(vault) : \A id \in Ids :
    (Wrote(p, f, id) /\ settings.note_template = DefaultTemplate) =>
      CreatedOf(vault[f].text) = Take(NoteOf(proc[p], id).timestamp, 10)

\* the template with every placeholder replaced at once by the field of the
\* note (the datetime by what getFilledTemplate takes of the timestamp)
RECURSIVE SinglePass(_, _)
SinglePass(template, note) ==
  IF template = <<>> THEN <<>>
  ELSE LET tok == Head(template)
           val == IF tok = PID THEN note.id
                  ELSE IF tok = PTITLE THEN note.title
                  ELSE IF tok = PDATETIME THEN Substring(note.timestamp, DatetimeStart)
                  ELSE IF tok = PCONTENT THEN note.content
                  ELSE IF tok = PSOURCE THEN note.source
                  ELSE <<tok>>
       IN  val \o SinglePass(Tail(template), note)

\* C13. Rendering is a single substitution pass: the text of a file written
\* for a note is the template with all placeholders replaced at once, a
\* field that reads as a placeholder standing in it as it is.
\* (Refuted: the replace calls follow one another, and a later one replaces
\* the placeholder an earlier one has inserted.)
C13_SinglePass ==
  \A p \in Procs : \A f \in 1..Len(vault) : \A id \in Ids :
    Wrote(p, f, id) =>
      vault[f].text = SinglePass(settings.note_template, NoteOf(proc[p], id))

\* ------------------------------------------------------------- the scan
\* the file at the path is located under the folder dir: for the vault root
\* its path has no separator, for a folder its path goes through the folder
InFolder(dir, path) ==
  IF dir = Str(SLASH) THEN ~Contains(path, SLASH)
  ELSE StartsWith(path, dir \o Str(SLASH))

\* the records the step adds to the index of the call p
Added(p) ==
  {proc'[p].noteMap[k] : k \in 1..Len(proc'[p].noteMap)}
    \ {proc[p].noteMap[k] : k \in 1..Len(proc[p].noteMap)}

\* C14. Folder scan membership: a record comes into the index of a scan only
\* for a file that is located under the folder of the scan and whose
\* metadata has an id.
\* (Refuted: path.startsWith(dir) takes the files of a folder whose name
\* starts with the name of dir.)
C14_ScanMembership ==
  [][\A p \in Procs : \A e \in Added(p) :
       /\ e.id # <<>>
       /\ InFolder(proc'[p].dir, vault[e.file].path)]_vars

\* ---------------------------------------------------------- the failures
\* the paths of the files of the vault
Paths == {vault[f].path : f \in 1..Len(vault)}

\* C15. Parse failure is fail-fast and names the file: a call that ends
\* because a read of a scan failed has made no vault call and has not
\* assigned last_sync_time, and its notice is the message of parseNoteFile
\* with the path of the file.
\* (Refuted: the read that fails may be one of the scan of writeNotes, after
\* a push that has assigned last_sync_time, which is the defect of C1.)
C15_ParseFailureFailFast ==
  \A p \in Procs :
    (Failed(proc[p]) /\ proc[p].cause = "read") =>
      /\ proc[p].oplog = <<>>
      /\ ~proc[p].wroteLst
      /\ proc[p].notice.text = MsgParse
      /\ proc[p].notice.path \in Paths

\* the place of the note with the id in the list of the call
PositionOf(pr, id) == CHOOSE k \in 1..Len(pr.notes) : pr.notes[k].id = id

\* C16. Apply is fail-fast: a vault call of the loop of writeNotes either
\* resolves, and is the one call logged, or is rejected, and then the call
\* ends with the notice 'Failed to write notes to Obsidian', the vault as it
\* was; the vault calls it has made are for the notes up to the one that
\* failed, and nothing but the return follows.
C16_ApplyFailFast ==
  [][\A p \in Procs :
       LET pr == proc[p]
           qr == proc'[p]
       IN  /\ (OwnStep(p) /\ InLoop(pr)) =>
                \/ /\ Len(qr.oplog) = Len(pr.oplog) + 1
                   /\ ~Failed(qr)
                \/ /\ Failed(qr)
                   /\ qr.notice = StringExc(MsgWrite, Empty)
                   /\ qr.oplog = pr.oplog /\ qr.i = pr.i
                   /\ vault' = vault
           /\ (OwnStep(p) /\ pr.pc \in {"exists", "mkdir"}) =>
                \/ ~Failed(qr) /\ qr.pc # "idle"
                \/ Failed(qr) /\ qr.notice = StringExc(MsgWrite, Empty) /\ vault' = vault
           /\ Failed(qr) =>
                \A k \in 1..Len(qr.oplog) : PositionOf(qr, qr.oplog[k].note) <= qr.i
           /\ (OwnStep(p) /\ Failed(pr)) => (qr = IdleProc /\ vault' = vault)]_vars

\* a vault call was rejected after writeNotes had written a note, with a
\* note still to write: the call has ended with the notice of writeNotes
C16_Witness ==
  \E p \in Procs :
    /\ Failed(proc[p]) /\ proc[p].cause = "vault"
    /\ proc[p].oplog # <<>>
    /\ proc[p].i < Len(proc[p].notes)
    /\ proc[p].notice = StringExc(MsgWrite, Empty)

\* C17. The push runs only in two-way mode: a call that begins when the
\* sync type is not two-way goes to the fetch at once; it never waits for a
\* read of the push or for update_notes, has no notes to send, and no step
\* of it changes the remote store.
C17_PushOnlyTwoWay ==
  [][\A p \in Procs :
       LET pr == proc[p]
           qr == proc'[p]
       IN  /\ (pr.pc = "idle" /\ qr.pc # "idle") =>
                /\ qr.twoWay = (settings.sync_type = "two-way")
                /\ ~qr.twoWay => qr.pc = "fetch"
           /\ (OwnStep(p) /\ qr.pc # "idle" /\ ~qr.twoWay) =>
                /\ ~InPush(qr)
                /\ ~qr.pushCalled
                /\ qr.formatted = <<>>
                /\ remote' = remote]_vars

\* a one-way call has fetched the notes, written a file and succeeded,
\* without a push, in a folder that holds synced notes
C17_Witness ==
  \E p \in Procs :
    /\ settings.sync_type = "one-way"
    /\ Succeeded(proc[p]) /\ ~proc[p].twoWay
    /\ proc[p].oplog # <<>>
    /\ ~proc[p].pushCalled
    /\ proc[p].noteMap # <<>>

\* ------------------------------------------------------- the user's edits
\* the text is a synced note whose body is what the user has typed
Edited(text) == parseNoteFile(text).id # <<>> /\ parseNoteFile(text).content = Str("y")

\* the remote store holds the body the user has typed for the note of the text
Pushed(text) ==
  LET id == parseNoteFile(text).id
  IN  id \in DOMAIN remote /\ remote[id].present /\ remote[id].content = Str("y")

\* C18. In two-way mode no local edit is lost: when the scan of a push ends,
\* the notes to send hold every edited note the remote store has not got,
\* and a modify of writeNotes overwrites an edited file only when the remote
\* store has got the edit.
\* (Refuted: a file edited after the scan of the push, while the call is in
\* flight, is overwritten by the modify of the same call; and with
\* last_sync_time as loaded, the defect of C8, no edit is sent at all.)
C18_NoLostEdit ==
  [][\A p \in Procs :
       LET pr == proc[p]
           qr == proc'[p]
       IN  /\ (pr.pc \in {"idle", "push_read"} /\ qr.pc \in {"push_send", "fetch"} /\ qr.twoWay) =>
                \A k \in 1..Len(qr.noteMap) :
                  LET f == qr.noteMap[k].file
                  IN  (vault[f].live /\ Edited(vault[f].text) /\ ~Pushed(vault[f].text))
                        => qr.noteMap[k].id \in SelectedIds(qr)
           /\ (pr.pc = "modify" /\ qr.pc = "rename" /\ pr.twoWay) =>
                LET f == Resolve(vault, pr.noteMap[MapGet(pr.noteMap, pr.notes[pr.i].id)].file)
                IN  (f # 0 /\ Edited(vault[f].text)) => Pushed(vault[f].text)]_vars

\* ------------------------------------------------- the files of a pull
\* C19. writeNotes never deletes a tracked note file: the file a delete of
\* writeNotes removes has no id in its metadata, and is not a file of the
\* index of the call.
\* (Refuted: the delete takes whatever file is at the path of the note, the
\* file of another note of the same title too.)
C19_NoTrackedFileDeleted ==
  [][\A p \in Procs :
       (proc[p].pc = "delete" /\ proc'[p].pc = "create") =>
         LET g == Resolve(vault, proc[p].del)
         IN  /\ parseNoteFile(vault[g].text).id = <<>>
             /\ \A k \in 1..Len(proc[p].noteMap) : proc[p].noteMap[k].file # g]_vars

\* the path folder/name of a note: its title, or its id when it has no title
NotePath(dir, note) ==
  LET name == IF note.title # <<>> THEN note.title ELSE note.id
  IN  IF dir = Str(SLASH) THEN name ELSE dir \o Str(SLASH) \o name

\* the files of the folder that carry the id
FilesOf(dir, id) ==
  {f \in 1..Len(vault) :
     vault[f].live /\ InFolder(dir, vault[f].path) /\ parseNoteFile(vault[f].text).id = id}

\* C20. Pull completeness: when writeNotes has returned without error, with
\* the default template, every note of the list has one file in the folder,
\* at folder/title (folder/id without a title), with the text rendered for
\* the note and its id.
\* (Refuted: of two notes with one title, the file of the first is deleted
\* for the second.)
C20_PullComplete ==
  \A p \in Procs :
    (Succeeded(proc[p]) /\ proc[p].alone /\ settings.note_template = DefaultTemplate) =>
      \A k \in 1..Len(proc[p].notes) :
        LET note == proc[p].notes[k]
            path == NotePath(proc[p].dir, note)
        IN  \E f \in 1..Len(vault) :
              /\ FilesOf(proc[p].dir, note.id) = {f}
              /\ FilesAt(vault, path) = {f}
              /\ vault[f].text = Rendered(note)

\* ------------------------------------------------------- the next push
\* the index a scan of the folder gives, every read succeeding
RECURSIVE ScanAll(_, _, _, _)
ScanAll(m, files, dir, v) ==
  IF files = <<>> THEN m
  ELSE IF fileInDir(dir, v[Head(files)].path)
       THEN ScanAll(ScanFile(m, Head(files), v[Head(files)].text), Tail(files), dir, v)
       ELSE ScanAll(m, Tail(files), dir, v)

\* what getUpdatedLocalNotes would return now, for the folder of the call
NextPush(pr) ==
  getUpdatedLocalNotes(ScanAll(<<>>, getFiles(vault), pr.dir, vault), vault,
                       settings.last_sync_time)

\* the call has failed in writeNotes, after a push that succeeded and after
\* a vault call of writeNotes
PartialPull(pr) ==
  /\ Failed(pr) /\ pr.twoWay
  /\ pr.pushCalled /\ pr.wroteLst
  /\ pr.oplog # <<>>

\* C21. No echo after a successful sync: when a call has shown the success,
\* with the default template and no edit of the user, getUpdatedLocalNotes
\* would return no record, so that a two-way call made now would not call
\* update_notes; and the same when a call has failed in writeNotes after its
\* push succeeded.
\* (Refuted: the files writeNotes wrote before it failed are later than the
\* last_sync_time of the push; and a renamed file whose note the pull does
\* not write stays selected for its title.)
C21_NoEcho ==
  \A p \in Procs :
    ((Succeeded(proc[p]) \/ PartialPull(proc[p]))
       /\ edits = 0
       /\ settings.note_template = DefaultTemplate)
      => /\ NextPush(proc[p]) = <<>>
         /\ ~ShouldPush(formattedNotes(ScanAll(<<>>, getFiles(vault), proc[p].dir, vault),
                                       vault, settings.last_sync_time))

====
